---- MODULE Spec2Model ----
(***************************************************************************)
(* Model of the tmux/powerline git segment: the porcelain-v2 status       *)
(* parser (parse_branch_data, parse_staged_files_data, ...,               *)
(* parse_git_status), the probe git_from_path and the two copies of       *)
(* GitSegment.__call__ found in the repository                            *)
(*   src/segments/tmux/git.py                                 ("tmux")    *)
(*   src/home/.local/opt/custom_segments/segments/tmux/git.py ("custom")  *)
(* The parsing functions are textually the same in both copies; the       *)
(* GitRepo segment methods and GitSegment.__call__ differ.                *)
(*                                                                         *)
(* Python values: str is a TLA+ string (TLC evaluates Len, \o and SubSeq  *)
(* on strings), list is a sequence, Optional[T] is a sequence holding at  *)
(* most one T (None is << >>), a call's outcome is Return(v) or Raise(e). *)
(***************************************************************************)
EXTENDS Integers, Sequences, FiniteSets, TLC

VARIABLES op, arg, ret, git

vars == <<op, arg, ret, git>>

\* ------------------------------------------------------------ bounds

\* Longest line list handed to parse_branch_data on its own.
MaxBranchLines == 4
\* Most lines in a status text / an entry-line list.
MaxStatusLines == 3
\* Most entries in the stash listing.
MaxStashEntries == 3

\* ------------------------------------------------- Python primitives

\* The value of a variable that nothing was assigned to.
Unset == [unset |-> TRUE]

None == << >>
Some(v) == <<v>>

Return(v) == [raised |-> "", value |-> v]
Raise(e) == [raised |-> e]

Char(s, i) == SubSeq(s, i, i)

\* s[i:] for i >= 0 (1-based here: the suffix that starts at index i).
SliceFrom(s, i) == IF i > Len(s) THEN SubSeq(s, 1, 0) ELSE SubSeq(s, i, Len(s))

startswith(s, prefix) ==
    Len(s) >= Len(prefix) /\ SubSeq(s, 1, Len(prefix)) = prefix

RECURSIVE find(_, _, _)
\* Index of the first occurrence of character c in s at or after i, else 0.
find(s, c, i) ==
    IF i > Len(s) THEN 0
    ELSE IF Char(s, i) = c THEN i
    ELSE find(s, c, i + 1)

RECURSIVE split(_, _)
\* str.split(sep) for a one-character separator: every separator cuts,
\* empty pieces are kept, "" gives [""].
split(s, sep) ==
    LET k == find(s, sep, 1) IN
    IF k = 0 THEN <<s>>
    ELSE <<SubSeq(s, 1, k - 1)>> \o split(SliceFrom(s, k + 1), sep)

Whitespace == {" ", "\t", "\n", "\r"}

RECURSIVE skip_ws(_, _)
skip_ws(s, i) ==
    IF i <= Len(s) /\ Char(s, i) \in Whitespace THEN skip_ws(s, i + 1) ELSE i

RECURSIVE skip_word(_, _)
skip_word(s, i) ==
    IF i <= Len(s) /\ Char(s, i) \notin Whitespace THEN skip_word(s, i + 1) ELSE i

RECURSIVE split_ws(_)
\* str.split() without arguments: runs of whitespace separate, no empty
\* pieces, "" gives [].
split_ws(s) ==
    LET b == skip_ws(s, 1)
        e == skip_word(s, b)
    IN  IF b > Len(s) THEN << >>
        ELSE <<SubSeq(s, b, e - 1)>> \o split_ws(SliceFrom(s, e))

Digits == {"0", "1", "2", "3", "4", "5", "6", "7", "8", "9"}

DigitValue(c) ==
    CASE c = "0" -> 0 [] c = "1" -> 1 [] c = "2" -> 2 [] c = "3" -> 3
      [] c = "4" -> 4 [] c = "5" -> 5 [] c = "6" -> 6 [] c = "7" -> 7
      [] c = "8" -> 8 [] c = "9" -> 9

DigitChar(d) ==
    CASE d = 0 -> "0" [] d = 1 -> "1" [] d = 2 -> "2" [] d = 3 -> "3"
      [] d = 4 -> "4" [] d = 5 -> "5" [] d = 6 -> "6" [] d = 7 -> "7"
      [] d = 8 -> "8" [] d = 9 -> "9"

IsDigits(s) == Len(s) > 0 /\ \A i \in 1..Len(s) : Char(s, i) \in Digits

RECURSIVE digits_value(_, _)
digits_value(s, acc) ==
    IF Len(s) = 0 THEN acc
    ELSE digits_value(SliceFrom(s, 2), 10 * acc + DigitValue(Char(s, 1)))

\* int(s): an optional sign and decimal digits; anything else raises
\* ValueError.  (int also strips blanks and accepts '_' between digits;
\* no token of the modelled inputs has either.)
int(s) ==
    IF IsDigits(s) THEN Return(digits_value(s, 0))
    ELSE IF Len(s) >= 2 /\ Char(s, 1) \in {"+", "-"} /\ IsDigits(SliceFrom(s, 2))
         THEN Return((IF Char(s, 1) = "-" THEN -1 ELSE 1)
                        * digits_value(SliceFrom(s, 2), 0))
    ELSE Raise("ValueError")

RECURSIVE str(_)
\* '{}'.format(n) for an int n >= 0.
str(n) == IF n < 10 THEN DigitChar(n) ELSE str(n \div 10) \o DigitChar(n % 10)

RECURSIVE join(_, _)
\* sep.join(items)
join(sep, items) ==
    IF Len(items) = 0 THEN ""
    ELSE IF Len(items) = 1 THEN items[1]
    ELSE items[1] \o sep \o join(sep, Tail(items))

\* ----------------------------------------------------------- Branch

Branch(head, upstream, ahead, behind) ==
    [head |-> head, upstream |-> upstream, ahead |-> ahead, behind |-> behind]

\* Mutant of ab_value: one digit after the sign, as BRANCH_AB_REGEX
\* ('\+(\d) -(\d)$') would capture.
ab_value_one_digit(i) == int(Char(i, 2))

\* ahead, behind = [int(i[1:]) for i in branch_data]: the sign character
\* is dropped and the rest parsed.
ab_value(i) == int(SliceFrom(i, 2))

\* The assignment to ahead, behind from the parsed list.
parse_branch_ab(st, ints) ==
    IF \E i \in 1..Len(ints) : ints[i].raised # "" THEN Raise("ValueError")
    ELSE IF Len(ints) # 2 THEN Raise("ValueError")      \* unpacking
    ELSE [st EXCEPT !.ahead = Some(ints[1].value), !.behind = Some(ints[2].value)]

\* The if/elif chain on branch_prefix.
parse_branch_key(st, branch_prefix, branch_data) ==
    IF branch_prefix = "branch.head" THEN
        IF Len(branch_data) = 0 THEN Raise("IndexError")
        ELSE [st EXCEPT !.head = Some(branch_data[1])]
    ELSE IF branch_prefix = "branch.upstream" THEN
        IF Len(branch_data) = 0 THEN Raise("IndexError")
        ELSE [st EXCEPT !.upstream = Some(branch_data[1])]
    ELSE IF branch_prefix = "branch.ab" THEN
        parse_branch_ab(st, [i \in 1..Len(branch_data) |-> ab_value(branch_data[i])])
    ELSE st

\* _, branch_prefix, *branch_data = parts
parse_branch_parts(st, parts) ==
    IF Len(parts) < 2 THEN Raise("ValueError")
    ELSE parse_branch_key(st, parts[2], SubSeq(parts, 3, Len(parts)))

\* One iteration of the loop of parse_branch_data; st holds the locals
\* new_data, head, upstream, ahead, behind, or is a Raise.
parse_branch_line(st, line) ==
    IF startswith(line, "#") THEN parse_branch_parts(st, split(line, " "))
    ELSE [st EXCEPT !.new_data = Append(@, line)]

RECURSIVE parse_branch_loop(_, _)
parse_branch_loop(st, data) ==
    IF Len(data) = 0 \/ "raised" \in DOMAIN st THEN st
    ELSE parse_branch_loop(parse_branch_line(st, Head(data)), Tail(data))

\* Mutant of parse_branch_return: the upstream is demanded as the head is.
parse_branch_return_needs_upstream(st) ==
    IF "raised" \in DOMAIN st THEN st
    ELSE IF st.head = None \/ st.upstream = None THEN Raise("BranchParseError")
    ELSE Return(<<st.new_data, Branch(st.head[1], st.upstream, st.ahead, st.behind)>>)

\* What follows the loop: the check of head and the return.
parse_branch_return(st) ==
    IF "raised" \in DOMAIN st THEN st
    ELSE IF st.head = None THEN Raise("BranchParseError")
    ELSE Return(<<st.new_data, Branch(st.head[1], st.upstream, st.ahead, st.behind)>>)

parse_branch_data(data) ==
    IF Len(data) = 0 THEN Raise("BranchParseError")
    ELSE parse_branch_return(
             parse_branch_loop([new_data |-> << >>, head |-> None, upstream |-> None,
                                ahead |-> None, behind |-> None], data))

\* ------------------------------------------------------- entry lines

Letters ==
    {"a", "b", "c", "d", "e", "f", "g", "h", "i", "j", "k", "l", "m",
     "n", "o", "p", "q", "r", "s", "t", "u", "v", "w", "x", "y", "z",
     "A", "B", "C", "D", "E", "F", "G", "H", "I", "J", "K", "L", "M",
     "N", "O", "P", "Q", "R", "S", "T", "U", "V", "W", "X", "Y", "Z"}

\* BRANCH_STAGED_REGEX = re.compile('\w\.'), used with .match: a word
\* character then a dot at the start of the value.
BRANCH_STAGED_REGEX_match(value) ==
    /\ Len(value) >= 2
    /\ Char(value, 1) \in Letters \cup Digits \cup {"_"}
    /\ Char(value, 2) = "."

RECURSIVE path_parts(_)
\* The components pathlib keeps: empty ones and '.' are dropped.
path_parts(pieces) ==
    IF Len(pieces) = 0 THEN << >>
    ELSE IF Head(pieces) \in {"", "."} THEN path_parts(Tail(pieces))
    ELSE <<Head(pieces)>> \o path_parts(Tail(pieces))

\* pathlib.Path(s) on POSIX, as the string str(Path(s)): repeated and
\* trailing slashes and '.' components go, exactly two leading slashes
\* stay, the empty path is '.'.
Path(s) ==
    LET root == IF startswith(s, "//") /\ ~startswith(s, "///") THEN "//"
                ELSE IF startswith(s, "/") THEN "/"
                ELSE ""
        body == join("/", path_parts(split(s, "/")))
    IN  [path |-> IF root = "" /\ body = "" THEN "." ELSE root \o body]

\* The body of `if line.startswith('1')` on the split line.
parse_staged_info(st, staged_info) ==
    IF Len(staged_info) < 2 THEN Raise("IndexError")
    ELSE IF BRANCH_STAGED_REGEX_match(staged_info[2]) THEN
        IF Len(staged_info) < 9 THEN Raise("IndexError")
        ELSE [st EXCEPT !.staged_files = Append(@, Path(staged_info[9]))]
    ELSE
        IF Len(staged_info) < 9 THEN Raise("IndexError")
        ELSE [st EXCEPT !.unstaged_files = Append(@, Path(staged_info[9]))]

\* One iteration of the loop of parse_staged_files_data.
parse_staged_line(st, line) ==
    IF startswith(line, "1") THEN parse_staged_info(st, split_ws(line))
    ELSE [st EXCEPT !.new_data = Append(@, line)]

RECURSIVE parse_staged_loop(_, _)
parse_staged_loop(st, data) ==
    IF Len(data) = 0 \/ "raised" \in DOMAIN st THEN st
    ELSE parse_staged_loop(parse_staged_line(st, Head(data)), Tail(data))

parse_staged_return(st) ==
    IF "raised" \in DOMAIN st THEN st
    ELSE Return(<<st.new_data, st.staged_files, st.unstaged_files>>)

parse_staged_files_data(data) ==
    parse_staged_return(
        parse_staged_loop([new_data |-> << >>, staged_files |-> << >>,
                           unstaged_files |-> << >>], data))

\* files.append(Path(line.split()[1]))
parse_marked_fields(st, fields) ==
    IF Len(fields) < 2 THEN Raise("IndexError")
    ELSE [st EXCEPT !.files = Append(@, Path(fields[2]))]

\* One iteration of the loop that parse_untracked_files_data and
\* parse_ignored_files_data share in shape: a line that starts with mark
\* gives its second field as a path.
parse_marked_line(st, line, mark) ==
    IF startswith(line, mark) THEN parse_marked_fields(st, split_ws(line))
    ELSE [st EXCEPT !.new_data = Append(@, line)]

RECURSIVE parse_marked_loop(_, _, _)
parse_marked_loop(st, data, mark) ==
    IF Len(data) = 0 \/ "raised" \in DOMAIN st THEN st
    ELSE parse_marked_loop(parse_marked_line(st, Head(data), mark), Tail(data), mark)

parse_marked_return(st) ==
    IF "raised" \in DOMAIN st THEN st ELSE Return(<<st.new_data, st.files>>)

parse_untracked_files_data(data) ==
    parse_marked_return(parse_marked_loop([new_data |-> << >>, files |-> << >>], data, "?"))

parse_ignored_files_data(data) ==
    parse_marked_return(parse_marked_loop([new_data |-> << >>, files |-> << >>], data, "!"))

\* ---------------------------------------------------------- GitRepo

\* len(stash_data_str.split('\n')) - 1
stash_count(stash_data_str) == Len(split(stash_data_str, "\n")) - 1

\* Mutant of derive_status: only the staged list is looked at.
derive_status_staged_only(staged, unstaged) ==
    IF Len(staged) = 0 THEN "CLEAN" ELSE "DIRTY"

\* The if/else at the end of parse_git_status.
derive_status(staged, unstaged) ==
    IF Len(staged) = 0 /\ Len(unstaged) = 0 THEN "CLEAN" ELSE "DIRTY"

\* GitRepo(...): the last statement of parse_git_status.
GitRepo(branch, staged, unstaged, untracked, ignored, stash_data_str) ==
    [branch |-> branch,
     staged |-> staged,
     unstaged |-> unstaged,
     ignored |-> ignored,
     untracked |-> untracked,
     status |-> derive_status(staged, unstaged),
     stashed |-> stash_count(stash_data_str)]

\* parse_git_status from its fourth statement on; r4 is the outcome of
\* parse_ignored_files_data.
parse_git_status_4(branch, staged, unstaged, untracked, r4, stash_data_str) ==
    IF r4.raised # "" THEN r4
    ELSE Return(GitRepo(branch, staged, unstaged, untracked, r4.value[2], stash_data_str))

\* From its third statement on; r3 is the outcome of
\* parse_untracked_files_data.
parse_git_status_3(branch, staged, unstaged, r3, stash_data_str) ==
    IF r3.raised # "" THEN r3
    ELSE parse_git_status_4(branch, staged, unstaged, r3.value[2],
                            parse_ignored_files_data(r3.value[1]), stash_data_str)

\* From its second statement on; r2 is the outcome of
\* parse_staged_files_data.
parse_git_status_2(branch, r2, stash_data_str) ==
    IF r2.raised # "" THEN r2
    ELSE parse_git_status_3(branch, r2.value[2], r2.value[3],
                            parse_untracked_files_data(r2.value[1]), stash_data_str)

\* From its first statement on; r1 is the outcome of parse_branch_data.
parse_git_status_1(r1, stash_data_str) ==
    IF r1.raised # "" THEN r1
    ELSE parse_git_status_2(r1.value[2], parse_staged_files_data(r1.value[1]),
                            stash_data_str)

parse_git_status(data_str, stash_data_str) ==
    parse_git_status_1(parse_branch_data(split(data_str, "\n")), stash_data_str)

\* --------------------------------------------------------- segments
\* The glyphs of the source are not ASCII; each is written as its code
\* point: U+2714 heavy check mark, U+2A00 circled dot (followed by a
\* blank in the source), U+2718 ballot x, U+2049 exclamation question
\* mark, U+26AB black circle, U+00B1 plus-minus, U+2026 ellipsis,
\* U+2571 diagonal, U+2691 black flag, U+262D hammer and sickle.

\* COLORS of src/segments/tmux/git.py.
COLORS ==
    [gitstatus |-> [clean |-> <<"branch:clean">>, dirty |-> <<"branch:dirty">>,
                    broken |-> <<"branch:broken">>, default |-> <<"branch:clean">>],
     branch |-> <<"branch:name">>,
     files |-> <<"files:info">>,
     stash |-> <<"files:info">>,
     red |-> <<"battery_full">>]

\* COLORS of the custom_segments copy.
COLORS_custom ==
    [gitstatus_clean |-> <<"git:branch_clean">>,
     gitstatus_dirty |-> <<"git:branch_dirty">>,
     gitstatus_broken |-> <<"git:branch_broken">>,
     gitstatus_default |-> <<"git:branch_clean">>,
     branch |-> <<"git:branch_name">>,
     files |-> <<"git:files_info">>,
     stash |-> <<"git:files_info">>,
     red |-> <<"battery_full">>]

\* GitStatus.segment
GitStatus_segment(self) ==
    [contents |-> IF self = "CLEAN" THEN "<U+2714>"
                  ELSE IF self = "DIRTY" THEN "<U+2A00> "
                  ELSE IF self = "BROKEN" THEN "<U+2718>"
                  ELSE "<U+2049>",
     highlight_groups |-> IF self = "CLEAN" THEN COLORS.gitstatus.clean
                          ELSE IF self = "DIRTY" THEN COLORS.gitstatus.dirty
                          ELSE IF self = "BROKEN" THEN COLORS.gitstatus.broken
                          ELSE COLORS.gitstatus.default,
     draw_inner_divider |-> TRUE]

GitStatus_segment_custom(self) ==
    [contents |-> IF self = "CLEAN" THEN "<U+2714>"
                  ELSE IF self = "DIRTY" THEN "<U+2A00> "
                  ELSE IF self = "BROKEN" THEN "<U+2718>"
                  ELSE "<U+2049>",
     highlight_groups |-> IF self = "CLEAN" THEN COLORS_custom.gitstatus_clean
                          ELSE IF self = "DIRTY" THEN COLORS_custom.gitstatus_dirty
                          ELSE IF self = "BROKEN" THEN COLORS_custom.gitstatus_broken
                          ELSE COLORS_custom.gitstatus_default,
     draw_inner_divider |-> TRUE]

\* GitRepo.files_segment (src/segments/tmux/git.py): the entries of the
\* non-empty buckets joined into one fragment, which is returned whatever
\* the buckets hold.
files_info(self) ==
    (IF Len(self.staged) > 0 THEN <<"<U+26AB>" \o str(Len(self.staged))>> ELSE << >>)
    \o (IF Len(self.staged) > 0 THEN <<str(Len(self.staged))>> ELSE << >>)
    \o (IF Len(self.unstaged) > 0 THEN <<"<U+00B1>" \o str(Len(self.unstaged))>> ELSE << >>)
    \o (IF Len(self.untracked) > 0 THEN <<"<U+2026>" \o str(Len(self.untracked))>> ELSE << >>)

files_segment(self) ==
    Some([contents |-> join("<U+2571>", files_info(self)),
          draw_inner_divider |-> TRUE,
          highlight_groups |-> COLORS.files])

\* GitRepo._files_segment (custom_segments copy).
files_segment_custom(contents) ==
    [contents |-> contents,
     draw_inner_divider |-> TRUE,
     highlight_groups |-> COLORS_custom.files]

staged_segment(self) ==
    IF Len(self.staged) > 0
    THEN Some(files_segment_custom("<U+26AB>" \o str(Len(self.staged))))
    ELSE None

unstaged_segment(self) ==
    IF Len(self.unstaged) > 0
    THEN Some(files_segment_custom("<U+00B1>" \o str(Len(self.unstaged))))
    ELSE None

untracked_segment(self) ==
    IF Len(self.untracked) > 0
    THEN Some(files_segment_custom("<U+2026>" \o str(Len(self.untracked))))
    ELSE None

branch_segment(self) ==
    Some([contents |-> self.branch.head,
          draw_inner_divider |-> TRUE,
          highlight_groups |-> COLORS.branch])

branch_segment_custom(self) ==
    Some([contents |-> self.branch.head,
          draw_inner_divider |-> TRUE,
          highlight_groups |-> COLORS_custom.branch])

status_segment(self) == Some(GitStatus_segment(self.status))

status_segment_custom(self) == Some(GitStatus_segment_custom(self.status))

stash_segment(self) ==
    IF self.stashed # 0
    THEN Some([contents |-> "<U+2691>" \o str(self.stashed),
               draw_inner_divider |-> TRUE,
               highlight_groups |-> COLORS.stash])
    ELSE None

stash_segment_custom(self) ==
    IF self.stashed # 0
    THEN Some([contents |-> "<U+2691>" \o str(self.stashed),
               draw_inner_divider |-> TRUE,
               highlight_groups |-> COLORS_custom.stash])
    ELSE None

red_segment(self) ==
    Some([contents |-> "<U+262D>", highlight_groups |-> COLORS.red])

RECURSIVE flatten(_)
\* [s for s in segments if s]: None is dropped; every dict built above
\* has keys and is kept.
flatten(segments) ==
    IF Len(segments) = 0 THEN << >>
    ELSE Head(segments) \o flatten(Tail(segments))

\* The return value of GitSegment.__call__ once git is a GitRepo
\* (src/segments/tmux/git.py).
render(g) ==
    flatten(<<branch_segment(g), status_segment(g), stash_segment(g),
              files_segment(g), red_segment(g)>>)

\* The same in the custom_segments copy.
render_custom(g) ==
    flatten(<<status_segment_custom(g), branch_segment_custom(g),
              stash_segment_custom(g), staged_segment(g), unstaged_segment(g),
              untracked_segment(g)>>)

\* ------------------------------------------------------------ probe

\* What Popen().communicate() hands back: stdout as bytes.
bytes(s) == [bytes |-> s]

\* bytes.decode(): every byte of the modelled outputs is ASCII.
decode(b) == b.bytes

\* The value git_from_path returns for the outcome r of parse_git_status:
\* the GitRepo as an Optional, or the exception passed on.
returned_repo(r) == IF r.raised # "" THEN r ELSE Return(Some(r.value))

\* git_from_path over what it observes: whether the directory exists, and
\* (return code, stdout) of each command it gets to run. A command that
\* is not run has no observation (None).
git_from_path(exists, p1, p2) ==
    IF ~exists THEN Return(None)
    ELSE IF p1[1].returncode > 0 THEN Return(None)
    ELSE IF p2[1].returncode > 0 THEN Return(None)
    ELSE returned_repo(parse_git_status(decode(p1[1].out), decode(p2[1].out)))

\* GitSegment.__call__ from `if git:` on, in src/segments/tmux/git.py; g
\* is the outcome of git_from_path, whose exception is not caught. A
\* GitRepo is a 7-tuple and so always true.
segments_of(g) ==
    IF g.raised # "" THEN g
    ELSE IF g.value # None THEN Return(render(g.value[1]))
    ELSE Return(<< >>)

\* The same in the custom_segments copy.
segments_of_custom(g) ==
    IF g.raised # "" THEN g
    ELSE IF g.value # None THEN Return(render_custom(g.value[1]))
    ELSE Return(<< >>)

\* The local git of GitSegment.__call__ after the call of git_from_path:
\* unassigned when the call raised.
git_local(g) == IF g.raised # "" THEN Unset ELSE g

\* ------------------------------------------------------------ inputs

RECURSIVE SeqsUpTo(_, _)
\* Every sequence over S of length at most n.
SeqsUpTo(S, n) ==
    IF n = 0 THEN {<< >>}
    ELSE LET shorter == SeqsUpTo(S, n - 1)
         IN  shorter \cup {Append(q, x) : q \in {r \in shorter : Len(r) = n - 1}, x \in S}

\* Lines handed to parse_branch_data (the headers and entry stubs of
\* tests/test_git_parse.py, and header lines of other shapes).
BranchLinePool ==
    { "# branch.oid some_hash",
      "# branch.head master",
      "# branch.head feature/some_branch",
      "# branch.upstream origin/test_repo",
      "# branch.ab +0 -0",
      "# branch.ab +100 -27",
      "# branch.ab +1",
      "#",
      "1 some content",
      "? some content" }

\* Entry lines of `git status --porcelain=v2 --ignored`.
EntryLinePool ==
    { "1 M. N... 100644 100644 100644 1a2b 3c4d staged.txt",
      "1 MM N... 100644 100644 100644 1a2b 3c4d src/both.py",
      "1 .M N... 100644 100644 100644 1a2b 1a2b work.txt",
      "1 .. N... 100644 100644 100644 1a2b 1a2b same.txt",
      "? newfile.txt",
      "! build/" }

\* Lines of a status text: two headers and the entry lines.
StatusLinePool ==
    {"# branch.oid 1a2b", "# branch.head master"} \cup EntryLinePool

RECURSIVE terminated(_)
\* The text git writes for these lines: each ends with a newline.
terminated(lines) ==
    IF Len(lines) = 0 THEN ""
    ELSE Head(lines) \o "\n" \o terminated(Tail(lines))

StatusTexts == {terminated(lines) : lines \in SeqsUpTo(StatusLinePool, MaxStatusLines)}

\* Lines of other shapes, for the parser called on its own: a header
\* with no key, with no value, with one or three tokens after branch.ab,
\* a `1` line of three fields, a bare `?` and a bare `!`.
OddLinePool ==
    { "# branch.head master",
      "#",
      "# branch.upstream",
      "# branch.ab +1",
      "# branch.ab +1 -2 +3",
      "1 M. N...",
      "?",
      "!" }

OddTexts == {terminated(lines) : lines \in SeqsUpTo(OddLinePool, MaxStatusLines)}

\* The n first entries of a stash listing.
stash_lines(n) == [i \in 1..n |-> "stash@{" \o str(i - 1) \o "}: WIP on master"]

\* Stash texts: n entries, with or without the newline after the last.
StashTexts ==
    {""} \cup {join("\n", stash_lines(n)) \o nl : n \in 1..MaxStashEntries, nl \in {"", "\n"}}

\* A finished command: its return code and its stdout.
Proc(returncode, out) == Some([returncode |-> returncode, out |-> bytes(out)])

\* Return codes of a failed command.
FailCodes == {1, 128}

\* Return code of a command ended by SIGKILL (Popen reports -signal).
KilledCode == 0 - 9

\* `git status`: success with a text, failure with nothing on stdout, or
\* killed after writing nothing or a first part.
StatusRuns ==
    {Proc(0, t) : t \in StatusTexts}
    \cup {Proc(rc, "") : rc \in FailCodes}
    \cup {Proc(KilledCode, t) : t \in {"", "# branch.oid 1a2b\n# branch.head master\n"}}

\* `git stash list`, likewise.
StashRuns ==
    {Proc(0, t) : t \in StashTexts}
    \cup {Proc(rc, "") : rc \in FailCodes}
    \cup {Proc(KilledCode, "")}

\* What one call of the segment observes of its surroundings, up to the
\* point where it stops looking: the renderer's pane_id, TMUX_PWD_<pane>,
\* whether getcwd() exists, and the commands it runs.
Unobserved == [pane_id |-> None, path |-> None, exists |-> None, p1 |-> None, p2 |-> None]

Observations ==
    {Unobserved}
    \cup {[Unobserved EXCEPT !.pane_id = Some("%1"), !.path = pth] :
              pth \in {None, Some("")}}
    \cup {[Unobserved EXCEPT !.pane_id = Some("%1"), !.path = Some("/repo"),
                             !.exists = Some(FALSE)]}
    \cup {[Unobserved EXCEPT !.pane_id = Some("%1"), !.path = Some("/repo"),
                             !.exists = Some(TRUE), !.p1 = p1] :
              p1 \in {r \in StatusRuns : r[1].returncode > 0}}
    \cup {[Unobserved EXCEPT !.pane_id = Some("%1"), !.path = Some("/repo"),
                             !.exists = Some(TRUE), !.p1 = p1, !.p2 = p2] :
              p1 \in {r \in StatusRuns : r[1].returncode <= 0}, p2 \in StashRuns}


\* ----------------------------------------------------------- actions

\* No call is in progress and nothing is kept from an earlier one: the
\* module holds no state between calls.
Init ==
    /\ op = "idle"
    /\ arg = Unset
    /\ ret = Unset
    /\ git = Unset

\* tests/test_git_parse.py: parse_branch_data called on a list of lines.
ParseBranchData ==
    /\ op = "idle"
    /\ \E data \in SeqsUpTo(BranchLinePool, MaxBranchLines) :
        /\ op' = "parse_branch_data"
        /\ arg' = [data |-> data]
        /\ ret' = parse_branch_data(data)
        /\ git' = Unset

ParseStagedFilesData ==
    /\ op = "idle"
    /\ \E data \in SeqsUpTo(EntryLinePool, MaxStatusLines) :
        /\ op' = "parse_staged_files_data"
        /\ arg' = [data |-> data]
        /\ ret' = parse_staged_files_data(data)
        /\ git' = Unset

ParseGitStatus ==
    /\ op = "idle"
    /\ \E data_str \in StatusTexts \cup OddTexts, stash_data_str \in StashTexts :
        /\ op' = "parse_git_status"
        /\ arg' = [data_str |-> data_str, stash_data_str |-> stash_data_str]
        /\ ret' = parse_git_status(data_str, stash_data_str)
        /\ git' = Unset

\* GitSegment.__call__ of src/segments/tmux/git.py on observation e; git
\* is the local of that name.
Call ==
    /\ op = "idle"
    /\ \E e \in Observations :
        /\ op' = "GitSegment.__call__"
        /\ arg' = e
        /\ IF e.pane_id = None THEN
               ret' = Return(<< >>) /\ git' = Unset
           ELSE IF e.path = None \/ e.path = Some("") THEN
               ret' = Return(<< >>) /\ git' = Unset
           ELSE
               \E g \in {git_from_path(e.exists[1], e.p1, e.p2)} :
                   git' = git_local(g) /\ ret' = segments_of(g)

\* GitSegment.__call__ of the custom_segments copy.
CallCustom ==
    /\ op = "idle"
    /\ \E e \in Observations :
        /\ op' = "GitSegment.__call__ (custom_segments)"
        /\ arg' = e
        /\ IF e.pane_id = None THEN
               ret' = Return(<< >>) /\ git' = Unset
           ELSE IF e.path = None \/ e.path = Some("") THEN
               ret' = Return(<< >>) /\ git' = Unset
           ELSE
               \E g \in {git_from_path(e.exists[1], e.p1, e.p2)} :
                   git' = git_local(g) /\ ret' = segments_of_custom(g)

\* The caller drops the result; the next call starts from scratch.
Discard ==
    /\ op # "idle"
    /\ op' = "idle"
    /\ arg' = Unset
    /\ ret' = Unset
    /\ git' = Unset

Next ==
    \/ ParseBranchData
    \/ ParseStagedFilesData
    \/ ParseGitStatus
    \/ Call
    \/ CallCustom
    \/ Discard

Spec == Init /\ [][Next]_vars

\* ------------------------------------------------------- properties
\* The wire format of the headers, written out from the values they carry.

HeadLine(X) == "# branch.head " \o X
UpstreamLine(Y) == "# branch.upstream " \o Y
AbLine(A, B) == "# branch.ab +" \o str(A) \o " -" \o str(B)

IsHeaderLine(l) == Len(l) > 0 /\ Char(l, 1) = "#"
IsOidLine(l) == startswith(l, "# branch.oid ")
IsHeadHeader(l) == startswith(l, "# branch.head")

Occurs(l, data) == \E i \in 1..Len(data) : data[i] = l
EntryLines(data) == SelectSeq(data, LAMBDA l : ~IsHeaderLine(l))

HeadNames == {"master", "feature/some_branch"}
UpstreamNames == {"origin/test_repo"}
Counts == {0, 1, 27, 100}

\* data holds the three headers for X, Y, A, B, and its other header
\* lines are branch.oid lines.
HasBranchHeaders(data, X, Y, A, B) ==
    /\ Occurs(HeadLine(X), data)
    /\ Occurs(UpstreamLine(Y), data)
    /\ Occurs(AbLine(A, B), data)
    /\ \A i \in 1..Len(data) :
           IsHeaderLine(data[i]) =>
               \/ data[i] \in {HeadLine(X), UpstreamLine(Y), AbLine(A, B)}
               \/ IsOidLine(data[i])

HasOnlyHead(data, X) ==
    /\ Occurs(HeadLine(X), data)
    /\ \A i \in 1..Len(data) : data[i] = HeadLine(X) \/ IsOidLine(data[i])

\* C2: on header-only input whose only branch header is
\* `# branch.head X`, parse_branch_data does not fail and returns
\* Branch(X, absent, absent, absent) with no remaining line.
C2_HeadOnly ==
    op = "parse_branch_data" =>
        \A X \in HeadNames :
            HasOnlyHead(arg.data, X) =>
                ret = Return(<< << >>, Branch(X, None, None, None) >>)

\* C2 happens: the second input of the repository's test.
C2_Witness ==
    /\ op = "parse_branch_data"
    /\ arg.data = <<"# branch.oid some_hash", "# branch.head feature/some_branch">>
    /\ ret.raised = ""
    /\ ret.value[2].head = "feature/some_branch"
    /\ ret.value[2].upstream = None

\* C3: on every input without a branch.head header line the parse fails
\* with BranchParseError.
C3_NoHeadRaisesBranchParseError ==
    op = "parse_branch_data" =>
        ((\A i \in 1..Len(arg.data) : ~IsHeadHeader(arg.data[i]))
            => ret = Raise("BranchParseError"))

InList(x, list) == \E k \in 1..Len(list) : list[k] = x

\* C4: the path of a `1 XY ...` line is in staged iff X is not '.', and
\* in unstaged iff Y is not '.'.
C4_StagedIffIndexUnstagedIffWorktree ==
    (op = "parse_staged_files_data" /\ ret.raised = "") =>
        \A i \in 1..Len(arg.data) :
            startswith(arg.data[i], "1") =>
                \A f \in {split_ws(arg.data[i])} :
                    /\ InList(Path(f[Len(f)]), ret.value[2]) <=> Char(f[2], 1) # "."
                    /\ InList(Path(f[Len(f)]), ret.value[3]) <=> Char(f[2], 2) # "."

\* The GitRepo states the last call produced: the return value of
\* parse_git_status, or the repository git_from_path handed to __call__.
CallOps == {"GitSegment.__call__", "GitSegment.__call__ (custom_segments)"}

HasRepo ==
    \/ op = "parse_git_status" /\ ret.raised = ""
    \/ op \in CallOps /\ git # Unset /\ git.value # None

Repo == IF op = "parse_git_status" THEN ret.value ELSE git.value[1]

\* C5: a state returned by parse_git_status is Clean iff staged and
\* unstaged are both empty and Dirty otherwise; it is never Broken.
C5_CleanIffNothingStagedOrUnstaged ==
    HasRepo =>
        /\ Repo.status \in {"CLEAN", "DIRTY"}
        /\ Repo.status = "CLEAN" <=> (Repo.staged = << >> /\ Repo.unstaged = << >>)

\* C5 happens: untracked, ignored and stash entries, and still Clean.
C5_Witness ==
    /\ op = "parse_git_status"
    /\ ret.raised = ""
    /\ ret.value.status = "CLEAN"
    /\ Len(ret.value.untracked) > 0
    /\ Len(ret.value.ignored) > 0
    /\ ret.value.stashed > 0

\* The number of non-empty lines of a text.
NonEmptyLines(text) ==
    Cardinality({i \in 1..Len(split(text, "\n")) : split(text, "\n")[i] # ""})

\* C6: stashCount is the number of non-empty lines of the stash text,
\* with or without a newline at its end.
C6_StashCountIsNonEmptyLines ==
    (op = "parse_git_status" /\ ret.raised = "") =>
        ret.value.stashed = NonEmptyLines(arg.stash_data_str)

\* --- what the segment is said to emit for a repository g

\* git_from_path was called, and what it saw.
Probed == op \in CallOps /\ arg.exists # None
Ran(p) == p # None
ReturnCode(p) == p[1].returncode

\* Both commands ran and returned 0.
BothSucceeded ==
    /\ Probed
    /\ Ran(arg.p1) /\ ReturnCode(arg.p1) = 0
    /\ Ran(arg.p2) /\ ReturnCode(arg.p2) = 0

Contents(fragments) == [i \in 1..Len(fragments) |-> fragments[i].contents]

StatusGlyph(status) ==
    IF status = "CLEAN" THEN "<U+2714>"
    ELSE IF status = "DIRTY" THEN "<U+2A00> "
    ELSE "<U+2718>"

\* Status glyph, raw head name, stash fragment only for a non-zero count.
LeadingContents(g) ==
    <<StatusGlyph(g.status), g.branch.head>>
    \o (IF g.stashed > 0 THEN <<"<U+2691>" \o str(g.stashed)>> ELSE << >>)

\* One glyph+count entry for each non-empty bucket among staged,
\* unstaged and untracked.
FileCountEntries(g) ==
    (IF g.staged # << >> THEN <<"<U+26AB>" \o str(Len(g.staged))>> ELSE << >>)
    \o (IF g.unstaged # << >> THEN <<"<U+00B1>" \o str(Len(g.unstaged))>> ELSE << >>)
    \o (IF g.untracked # << >> THEN <<"<U+2026>" \o str(Len(g.untracked))>> ELSE << >>)

\* The entries as separate fragments, or joined into one (none when
\* there is no entry).
FileCountOutputs(g) ==
    {FileCountEntries(g),
     IF FileCountEntries(g) = << >> THEN << >>
     ELSE <<join("<U+2571>", FileCountEntries(g))>>}

\* C7: for every parsed state the segment emits, in this order and no
\* others: the status glyph, the branch (raw head name), a stash fragment
\* only if stashCount > 0, then the file-count output.
C7_FragmentOrder ==
    (BothSucceeded /\ HasRepo) =>
        /\ ret.raised = ""
        /\ \E files \in FileCountOutputs(Repo) :
               Contents(ret.value) = LeadingContents(Repo) \o files

\* The fragments that carry file counts: tagged with the files group and
\* not the stash fragment, which shares that group.
IsFileCountFragment(f) ==
    /\ f.highlight_groups \in {COLORS.files, COLORS_custom.files}
    /\ ~startswith(f.contents, "<U+2691>")

\* C8: the file-count output holds exactly one glyph+count entry for each
\* non-empty bucket among staged, unstaged and untracked, as separate
\* fragments or joined into one; no file-count fragment when the three
\* are empty; ignored never contributes.
C8_OneEntryPerNonEmptyBucket ==
    (BothSucceeded /\ HasRepo /\ ret.raised = "") =>
        Contents(SelectSeq(ret.value, IsFileCountFragment)) \in FileCountOutputs(Repo)

\* C9: git_from_path returns None, without raising, when the directory
\* does not exist or a command ends with a non-zero return code, a
\* negative one included; it returns a state only when both returned 0.
C9_AbsentUnlessBothZero ==
    Probed =>
        /\ (\/ arg.exists = Some(FALSE)
            \/ (Ran(arg.p1) /\ ReturnCode(arg.p1) # 0)
            \/ (Ran(arg.p2) /\ ReturnCode(arg.p2) # 0))
               => git = Return(None)
        /\ HasRepo => (Ran(arg.p1) /\ ReturnCode(arg.p1) = 0
                       /\ Ran(arg.p2) /\ ReturnCode(arg.p2) = 0)

NoHeadHeader(text) ==
    \A i \in 1..Len(split(text, "\n")) : ~IsHeadHeader(split(text, "\n")[i])

\* C10: when both commands succeed and the parse of their output fails
\* (no branch.head header, say), the segment call does not raise: it
\* returns an empty fragment list.
C10_ParseFailureRendersNothing ==
    BothSucceeded =>
        /\ ret.raised = ""
        /\ NoHeadHeader(decode(arg.p1[1].out)) => ret = Return(<< >>)

\* C11: on every status text parse_git_status returns a state or fails
\* with BranchParseError and in no other way: a header line with no key
\* or with fewer or more value tokens than expected, a `1` line with
\* fewer than nine fields and a bare `?` or `!` do not abort the parse
\* with another error.
C11_ReturnsOrBranchParseError ==
    op = "parse_git_status" => ret.raised \in {"", "BranchParseError"}

====
